---------------------------- MODULE Spec2Model ----------------------------
(***************************************************************************)
(* Reactor Core (src/src/App.jsx): the equation-balancing puzzle.          *)
(*                                                                         *)
(* The module models the component App as a state machine: its React       *)
(* state, the timers registered in timeoutsRef, and the handlers           *)
(* initLevel, handleCardClick (with its chain of setTimeout callbacks),    *)
(* handleUndo and the buttons of the three views.  The pure functions      *)
(* generateDeck and calculateMinMoves are operators computed as the code   *)
(* computes them.                                                          *)
(*                                                                         *)
(* A card is the record [type, value]: the other fields of the object      *)
(* built by create() (id, symbol, name, ariaLabel) are a random key and    *)
(* display texts derived from type and value, and no handler reads them    *)
(* to decide anything but which cards to animate.                          *)
(*                                                                         *)
(* The state that only the views read (fallingCards, streamingUnits,       *)
(* particles, flash, selectedCardId), the timers that only play a sound    *)
(* or end the flash, and the audio engine are left out: no handler reads   *)
(* them.  timeouts holds the live timers among timeout1, timeout2,         *)
(* timeout3 and victoryTimeout.  rcLevel and rcSolved are the two items    *)
(* of localStorage.                                                        *)
(*                                                                         *)
(* Math.random() is modelled at a resolution R: it returns the midpoint    *)
(* (2k+1)/(2R) of one of the R equal intervals of [0, 1), k in 0..R-1, so  *)
(* that Math.floor(Math.random() * n) is ((2k+1) * n) \div (2R).           *)
(***************************************************************************)
EXTENDS Integers, Sequences, FiniteSets

VARIABLES
    \* ---- React state of App (useState, lines 102-118)
    level, puzzlesSolved, gameState, deck, leftConstant, rightValue,
    moves, minMoves, moveHistory, undoAvailable, isAnimating,
    \* ---- localStorage: the items under 'rc_level' and 'rc_solved', each
    \* the set of the strings stored under the key (none or one); a string
    \* is the sequence of its UTF-16 code units
    rcLevel, rcSolved,
    \* ---- timers: the live timers of timeoutsRef and what their closures hold
    timeouts, card, closureLeft,
    \* ---- the locals of the last initLevel call (lines 181-192)
    lvl, b, solution, newDeck, optimal, attempts,
    \* ---- initLevel run pass by pass: the solver's result of every pass of
    \* the do-while so far (lines 188-192); not recorded when initLevel is
    \* taken in one step
    tried,
    \* ---- the solver called on its own: its arguments and what it returned
    target, availableCards, result, pc,
    \* ---- the solver run step by step: the locals queue and visited of
    \* calculateMinMoves (lines 163-164)
    queue, visited

vars == <<rcLevel, rcSolved,
          level, puzzlesSolved, gameState, deck, leftConstant, rightValue,
          moves, minMoves, moveHistory, undoAvailable, isAnimating,
          timeouts, card, closureLeft,
          lvl, b, solution, newDeck, optimal, attempts, tried,
          target, availableCards, result, pc, queue, visited>>

gameVars == <<rcLevel, rcSolved,
              level, puzzlesSolved, gameState, deck, leftConstant, rightValue,
              moves, minMoves, moveHistory, undoAvailable, isAnimating,
              timeouts, card, closureLeft>>
initVars == <<lvl, b, solution, newDeck, optimal, attempts, tried>>
solverVars == <<target, availableCards, result, pc, queue, visited>>

-----------------------------------------------------------------------------
(* Bounds of the model *)

\* the solver on its own is run on every target in -MaxTarget..MaxTarget
MaxTarget == 40
\* the game is played on levels 1..MaxLevel
MaxLevel == 2
\* at most MaxMoves cards are clicked in one level
MaxMoves == 2
\* the resolution of Math.random() while the game is played
RandRes == 2
\* the solver step by step is run on every target in
\* -SearchMaxTarget..SearchMaxTarget
SearchMaxTarget == 3
\* the level initializer on its own is run on levels 1..GenMaxLevel, with
\* Math.random() of resolution GenRandRes
GenMaxLevel == 4
GenRandRes == 4
\* the deck generator on its own is run on levels 1..DeckMaxLevel, with
\* Math.random() of resolution DeckRandRes
DeckMaxLevel == 6
DeckRandRes == 10

-----------------------------------------------------------------------------
(* Program constants *)

\* Math.min(Math.floor(lvl / 2) + 3, 5): the largest card magnitude
MaxMagnitude == 5
\* moves < 8: the depth bound of the search
MaxDepth == 8
\* Math.abs(next) <= Math.abs(target) + 15: the range bound of the search
RangeSlack == 15
\* return 1: what the solver returns when the queue empties
Fallback == 1
\* while (optimal > 6 && attempts < 20), line 192
GoodEnough == 6
MaxAttempts == 20
\* Math.floor(lvl / 2) + 3, lines 143 and 181
BaseMagnitude == 3
\* toString() writes decimal strings, and parseInt reads them
Radix == 10
\* parseInt reads a string that begins with 0x or 0X in radix 16
HexRadix == 16

-----------------------------------------------------------------------------
(* Cards *)

Abs(x) == IF x < 0 THEN -x ELSE x

Min(x, y) == IF x < y THEN x ELSE y

CardTypes == {"matter", "antimatter"}

\* create(val, type), lines 144-151
create(val, type) == [type |-> type, value |-> val]

\* card.type === 'antimatter' ? -card.value : card.value  (lines 169, 251)
Delta(c) == IF c.type = "antimatter" THEN -c.value ELSE c.value

-----------------------------------------------------------------------------
(* calculateMinMoves, lines 162-178 *)

\* CanEnqueue with the depth test off by one (moves < 7)
CanEnqueueShallow(next, seen, tgt, mv) ==
    /\ next \notin seen
    /\ Abs(next) <= Abs(tgt) + RangeSlack
    /\ mv < MaxDepth - 1

\* CanEnqueue without the test of the visited set
CanEnqueueRevisits(next, seen, tgt, mv) ==
    /\ Abs(next) <= Abs(tgt) + RangeSlack
    /\ mv < MaxDepth

\* the condition of line 171.  visited holds the decimal strings `${next}`;
\* the decimal string of an integer determines it, so the set of integers
\* is the same set.
CanEnqueue(next, seen, tgt, mv) ==
    /\ next \notin seen
    /\ Abs(next) <= Abs(tgt) + RangeSlack
    /\ mv < MaxDepth

\* the for loop of lines 168-175 from card i on: the queue and the visited
\* set after the neighbours of {current, moves} have been tried in order
RECURSIVE ForEachCard(_, _, _, _, _, _, _)
ForEachCard(i, cards, current, mv, tgt, q, seen) ==
    IF i > Len(cards) THEN [queue |-> q, visited |-> seen]
    ELSE LET next == current + Delta(cards[i])
         IN IF CanEnqueue(next, seen, tgt, mv)
            THEN ForEachCard(i + 1, cards, current, mv, tgt,
                             Append(q, [current |-> next, moves |-> mv + 1]),
                             seen \cup {next})
            ELSE ForEachCard(i + 1, cards, current, mv, tgt, q, seen)

\* the while loop of lines 165-176
RECURSIVE Search(_, _, _, _)
Search(q, seen, tgt, cards) ==
    IF q = <<>> THEN Fallback
    ELSE LET head == Head(q)
         IN IF head.current = tgt THEN head.moves
            ELSE LET after == ForEachCard(1, cards, head.current, head.moves,
                                          tgt, Tail(q), seen)
                 IN Search(after.queue, after.visited, tgt, cards)

\* calculateMinMoves with the start node counted as one move
calculateMinMovesFromOne(tgt, cards) ==
    Search(<<[current |-> 0, moves |-> 1]>>, {0}, tgt, cards)

calculateMinMoves(tgt, cards) ==
    Search(<<[current |-> 0, moves |-> 0]>>, {0}, tgt, cards)

-----------------------------------------------------------------------------
(* The solver on its own: SpecSolver *)

AllCards == {create(v, t) : v \in 1..MaxMagnitude, t \in CardTypes}

AllDecks == [1..3 -> AllCards]

NoCard == [type |-> "none", value |-> 0]

\* A string is the sequence of its UTF-16 code units, written in
\* hexadecimal.  The characters the conversions name:
Char == [minus |-> \h002D, plus |-> \h002B, zero |-> \h0030, one |-> \h0031,
         x |-> \h0078, X |-> \h0058]

\* the digits 0-9 and a-f: the first Radix of them are the decimal digits
Digit == <<\h0030, \h0031, \h0032, \h0033, \h0034, \h0035, \h0036, \h0037,
           \h0038, \h0039, \h0061, \h0062, \h0063, \h0064, \h0065, \h0066>>

\* the digits 0-9 and A-F
DigitUpper == <<\h0030, \h0031, \h0032, \h0033, \h0034, \h0035, \h0036,
                \h0037, \h0038, \h0039, \h0041, \h0042, \h0043, \h0044,
                \h0045, \h0046>>

\* Number.prototype.toString() of an integer (lines 130-131)
RECURSIVE toStringNat(_)
toStringNat(n) ==
    IF n < Radix THEN <<Digit[n + 1]>>
    ELSE toStringNat(n \div Radix) \o <<Digit[(n % Radix) + 1]>>

toString(n) ==
    IF n < 0 THEN <<Char.minus>> \o toStringNat(-n) ELSE toStringNat(n)

\* c is a digit of radix r, in either case
IsDigit(c, r) ==
    \E d \in 0..(r - 1) : Digit[d + 1] = c \/ DigitUpper[d + 1] = c

DigitValue(c) ==
    CHOOSE d \in 0..(HexRadix - 1) : Digit[d + 1] = c \/ DigitUpper[d + 1] = c

\* the characters parseInt skips at the start of a string: the white space
\* and the line terminators of ECMAScript (TAB, LF, VT, FF, CR, SP, NBSP,
\* U+1680, U+2000..U+200A, LS, PS, U+202F, U+205F, U+3000, BOM)
WhiteSpace ==
    {\h0009, \h000A, \h000B, \h000C, \h000D, \h0020, \h00A0, \h1680}
    \cup (\h2000..\h200A)
    \cup {\h2028, \h2029, \h202F, \h205F, \h3000, \hFEFF}

RECURSIVE TrimStart(_)
TrimStart(str) ==
    IF str # <<>> /\ Head(str) \in WhiteSpace THEN TrimStart(Tail(str)) ELSE str

\* the value of the longest prefix of str made of digits of radix r
RECURSIVE ParseDigits(_, _, _)
ParseDigits(str, acc, r) ==
    IF str = <<>> \/ ~IsDigit(Head(str), r) THEN acc
    ELSE ParseDigits(Tail(str), r * acc + DigitValue(Head(str)), r)

\* parseInt(string) without a radix (lines 102-103): leading white space
\* is skipped, then an optional sign, then 0x or 0X selects radix 16, then
\* the leading digits of the radix are read; NaN when there is none
parseInt(str) ==
    LET trimmed == TrimStart(str)
        signed == trimmed # <<>> /\ Head(trimmed) \in {Char.minus, Char.plus}
        negative == signed /\ Head(trimmed) = Char.minus
        unsigned == IF signed THEN Tail(trimmed) ELSE trimmed
        hex == /\ Len(unsigned) >= 2
               /\ unsigned[1] = Char.zero
               /\ unsigned[2] \in {Char.x, Char.X}
        r == IF hex THEN HexRadix ELSE Radix
        digits == IF hex THEN SubSeq(unsigned, 3, Len(unsigned)) ELSE unsigned
    IN IF digits = <<>> \/ ~IsDigit(Head(digits), r) THEN "NaN"
       ELSE IF negative THEN -ParseDigits(digits, 0, r)
       ELSE ParseDigits(digits, 0, r)

\* localStorage.getItem(key) || dflt: getItem gives null for an absent
\* key, and null and the empty string are falsy
OrDefault(item, dflt) ==
    IF item = {} \/ item = {<<>>} THEN dflt ELSE CHOOSE str \in item : TRUE

\* what an earlier session at level l left in localStorage; a first
\* session finds both keys absent
StoredProgress(l) ==
    {[level |-> {toString(l)}, solved |-> {toString(l - 1)}]}
    \cup (IF l = 1 THEN {[level |-> {}, solved |-> {}]} ELSE {})

\* Persist that writes the level only
PersistLevelOnly(l, p) ==
    /\ rcLevel' = {toString(l)}
    /\ rcSolved' = rcSolved

\* the effect of lines 128-132, run after mount and after every render in
\* which level or puzzlesSolved changed
Persist(l, p) ==
    /\ rcLevel' = {toString(l)}
    /\ rcSolved' = {toString(p)}

\* the state of App after construction (lines 102-124) and after the
\* effects of the mount: level and puzzlesSolved are read from
\* localStorage and written back
AppInit(l) ==
    /\ \E stored \in StoredProgress(l) :
          /\ level = parseInt(OrDefault(stored.level, <<Char.one>>))
          /\ puzzlesSolved = parseInt(OrDefault(stored.solved, <<Char.zero>>))
    /\ rcLevel = {toString(level)}
    /\ rcSolved = {toString(puzzlesSolved)}
    /\ gameState = "menu"
    /\ deck = <<>>
    /\ leftConstant = 0
    /\ rightValue = 0
    /\ moves = 0
    /\ minMoves = 0
    /\ moveHistory = <<>>
    /\ undoAvailable = 1
    /\ isAnimating = FALSE
    /\ timeouts = {}
    /\ card = NoCard
    /\ closureLeft = 0

NoInitLevel ==
    /\ lvl = 0
    /\ b = 0
    /\ solution = 0
    /\ newDeck = <<>>
    /\ optimal = 0
    /\ attempts = 0
    /\ tried = <<>>

NoSolver ==
    /\ target = 0
    /\ availableCards = <<>>
    /\ result = 0
    /\ pc = "none"
    /\ queue = <<>>
    /\ visited = {}

SolverInit ==
    /\ AppInit(1)
    /\ NoInitLevel
    /\ target \in -MaxTarget..MaxTarget
    /\ availableCards \in AllDecks
    /\ result = 0
    /\ pc = "call"
    /\ queue = <<>>
    /\ visited = {}

Solve ==
    /\ pc = "call"
    /\ result' = calculateMinMoves(target, availableCards)
    /\ pc' = "returned"
    /\ UNCHANGED <<target, availableCards, queue, visited>>
    /\ UNCHANGED gameVars
    /\ UNCHANGED initVars

SolverNext == Solve

SpecSolver == SolverInit /\ [][SolverNext]_vars

-----------------------------------------------------------------------------
(* Math.random() *)

\* the values Math.random() returns: k stands for (2k+1)/(2R)
Random(R) == 0..(R - 1)

\* Math.floor(Math.random() * n) for Math.random() = (2k+1)/(2R)
RandomInt(k, n, R) == ((2 * k + 1) * n) \div (2 * R)

-----------------------------------------------------------------------------
(* generateDeck, lines 142-160 *)

\* MaxVal with the cap of 5 forgotten
MaxValUncapped(l) == (l \div 2) + BaseMagnitude

\* line 143 (and line 181 in initLevel)
MaxVal(l) == Min((l \div 2) + BaseMagnitude, MaxMagnitude)

\* Math.floor(Math.random() * maxVal) + 1, lines 155-157
RandomValue(k, maxVal, R) == RandomInt(k, maxVal, R) + 1

\* Math.random() > 0.5 ? 'matter' : 'antimatter', line 157
RandomType(k, R) == IF 2 * (2 * k + 1) > 2 * R THEN "matter" ELSE "antimatter"

\* Cards with the second card not forced to be matter
CardsUnforced(k1, k2, k3, k4, maxVal, R) ==
    << create(RandomValue(k1, maxVal, R), "antimatter"),
       create(RandomValue(k2, maxVal, R), RandomType(k4, R)),
       create(RandomValue(k3, maxVal, R), RandomType(k4, R)) >>

\* lines 154-158: the three cards before the shuffle
Cards(k1, k2, k3, k4, maxVal, R) ==
    << create(RandomValue(k1, maxVal, R), "antimatter"),
       create(RandomValue(k2, maxVal, R), "matter"),
       create(RandomValue(k3, maxVal, R), RandomType(k4, R)) >>

\* cards.sort(() => Math.random() - 0.5), line 159: the comparator is random,
\* so the order the sort leaves is any permutation of the array
Permutations == {p \in [1..3 -> 1..3] : \A i, j \in 1..3 : p[i] = p[j] => i = j}

Shuffle(cards, p) == [i \in 1..3 |-> cards[p[i]]]

\* every deck generateDeck(l) can return
generateDeck(l, R) ==
    LET maxVal == MaxVal(l)
    IN { Shuffle(Cards(k1, k2, k3, k4, maxVal, R), p) :
            k1 \in Random(R), k2 \in Random(R), k3 \in Random(R),
            k4 \in Random(R), p \in Permutations }

-----------------------------------------------------------------------------
(* initLevel, lines 180-207 *)

\* Math.floor(Math.random() * (maxVal * 2)) - maxVal, lines 182-183
RandomOffset(k, maxVal, R) == RandomInt(k, maxVal * 2, R) - maxVal

\* one pass of the body of the do-while, lines 189-190, for each deck
\* generateDeck can return
Tries(l, bb, R) ==
    { [newDeck |-> d, optimal |-> calculateMinMoves(-bb, d)] :
          d \in generateDeck(l, R) }

\* LoopAgain that does not look at the solver's result: always 20 passes
LoopAgainWhateverResult(opt, n) == n < MaxAttempts

\* while (optimal > 6 && attempts < 20), line 192
LoopAgain(opt, n) == opt > GoodEnough /\ n < MaxAttempts

\* lines 188-192: newDeck, optimal and attempts when the loop exits, given
\* that attempts is n after the current pass.  Every pass draws its deck
\* afresh, so every pass has the same set of tries.
RECURSIVE DoWhile(_, _)
DoWhile(tries, n) ==
    LET again == {t \in tries : LoopAgain(t.optimal, n)}
    IN { [newDeck |-> t.newDeck, optimal |-> t.optimal, attempts |-> n] :
             t \in tries \ again }
       \cup (IF again # {} THEN DoWhile(tries, n + 1) ELSE {})

Loop(l, bb, R) == DoWhile(Tries(l, bb, R), 1)

\* Loop for the levels and offsets of the game, computed once
LoopOfGame ==
    [l \in 1..MaxLevel |->
        [k \in Random(RandRes) |->
            Loop(l, RandomOffset(k, MaxVal(l), RandRes), RandRes)]]

\* lines 194-206, the state initLevel installs
Install(bb, c, out) ==
    /\ leftConstant' = bb
    /\ rightValue' = c
    /\ deck' = out.newDeck
    /\ minMoves' = out.optimal
    /\ moves' = 0
    /\ moveHistory' = <<>>
    /\ undoAvailable' = 1
    /\ isAnimating' = FALSE
    /\ gameState' = "playing"

\* Cleanup that clears no timer
CleanupNothing ==
    UNCHANGED <<timeouts, card, closureLeft>>

\* the cleanup of the effect of lines 135-140, run when gameState changes
\* (and on unmount): every timer of timeoutsRef is cleared
Cleanup ==
    /\ timeouts' = {}
    /\ card' = NoCard
    /\ closureLeft' = 0

\* initLevel called in a render whose level is l, with Math.random() of
\* resolution R; outcomes[k] is what the do-while can leave when the
\* offset is drawn from k.  gameState becomes 'playing', so Cleanup runs.
initLevel(l, R, outcomes) ==
    \E kb \in Random(R) : \E out \in outcomes[kb] : \E ks \in Random(R) :
        LET maxVal == MaxVal(l)
            bb == RandomOffset(kb, maxVal, R)
            sol == RandomOffset(ks, maxVal, R)
        IN    /\ Install(bb, sol + bb, out)
              /\ Cleanup
              /\ lvl' = l
              /\ b' = bb
              /\ solution' = sol
              /\ newDeck' = out.newDeck
              /\ optimal' = out.optimal
              /\ attempts' = out.attempts
              /\ tried' = <<>>

-----------------------------------------------------------------------------
(* The game: Spec *)

Init ==
    /\ \E l \in 1..MaxLevel : AppInit(l)
    /\ NoInitLevel
    /\ NoSolver

GameOutcomes == LoopOfGame[level]

\* INITIALIZE REACTOR, line 321
StartLevel ==
    /\ gameState = "menu"
    /\ initLevel(level, RandRes, GameOutcomes)
    /\ UNCHANGED <<rcLevel, rcSolved, level, puzzlesSolved>>
    /\ UNCHANGED solverVars

\* NEXT CORE, line 396: initLevel is the one of the render that drew the
\* victory view, whose level is the level before setLevel(l => l+1)
NextCore ==
    /\ gameState = "victory"
    /\ level < MaxLevel
    /\ level' = level + 1
    /\ puzzlesSolved' = puzzlesSolved + 1
    /\ Persist(level + 1, puzzlesSolved + 1)
    /\ initLevel(level, RandRes, GameOutcomes)
    /\ UNCHANGED solverVars

\* MENU on the victory view (line 404) and ABORT (line 475)
ToMenu ==
    /\ gameState \in {"victory", "playing"}
    /\ gameState' = "menu"
    /\ Cleanup
    /\ UNCHANGED <<rcLevel, rcSolved, level, puzzlesSolved, deck, leftConstant, rightValue,
                   moves, minMoves, moveHistory, undoAvailable, isAnimating>>
    /\ UNCHANGED initVars
    /\ UNCHANGED solverVars

\* ResetProgress that resets the level and keeps the count of solved puzzles
ResetProgressLevelOnly ==
    /\ gameState = "menu"
    /\ (level > 1 \/ puzzlesSolved > 0)
    /\ level' = 1
    /\ IF level # 1
       THEN Persist(1, puzzlesSolved)
       ELSE rcLevel' = {} /\ rcSolved' = {}
    /\ UNCHANGED <<puzzlesSolved, gameState, deck, leftConstant, rightValue,
                   moves, minMoves, moveHistory, undoAvailable, isAnimating,
                   timeouts, card, closureLeft>>
    /\ UNCHANGED <<lvl, b, solution, newDeck, optimal, attempts, tried>>
    /\ UNCHANGED <<target, availableCards, result, pc, queue, visited>>

\* handleResetProgress, lines 296-303, when the player confirms.  Its
\* button is in the menu view, and is rendered only when level > 1 or
\* puzzlesSolved > 0 (line 352).  The handler removes both keys; the effect
\* of lines 128-132 writes them again when a counter has changed.
ResetProgress ==
    /\ gameState = "menu"
    /\ (level > 1 \/ puzzlesSolved > 0)
    /\ level' = 1
    /\ puzzlesSolved' = 0
    /\ IF level # 1 \/ puzzlesSolved # 0
       THEN Persist(1, 0)
       ELSE rcLevel' = {} /\ rcSolved' = {}
    /\ UNCHANGED <<gameState, deck, leftConstant, rightValue, moves, minMoves,
                   moveHistory, undoAvailable, isAnimating,
                   timeouts, card, closureLeft>>
    /\ UNCHANGED initVars
    /\ UNCHANGED solverVars

\* HandleCardClick without the early return of line 210
HandleCardClickUnguarded(i) ==
    /\ gameState = "playing"
    /\ moves < MaxMoves
    /\ timeouts' = {"timeout1"}
    /\ card' = deck[i]
    /\ closureLeft' = leftConstant
    /\ isAnimating' = TRUE
    /\ moves' = moves + 1
    /\ moveHistory' = Append(moveHistory, deck[i])
    /\ UNCHANGED <<rcLevel, rcSolved, level, puzzlesSolved, gameState, deck, leftConstant,
                   rightValue, minMoves, undoAvailable>>
    /\ UNCHANGED <<lvl, b, solution, newDeck, optimal, attempts, tried>>
    /\ UNCHANGED <<target, availableCards, result, pc, queue, visited>>

\* handleCardClick(deck[i]), lines 209-277, up to the first setTimeout
HandleCardClick(i) ==
    /\ gameState = "playing"
    /\ moves < MaxMoves
    /\ ~isAnimating
    /\ timeouts' = {"timeout1"}
    /\ card' = deck[i]
    /\ closureLeft' = leftConstant
    /\ isAnimating' = TRUE
    /\ moves' = moves + 1
    /\ moveHistory' = Append(moveHistory, deck[i])
    /\ UNCHANGED <<rcLevel, rcSolved, level, puzzlesSolved, gameState, deck, leftConstant,
                   rightValue, minMoves, undoAvailable>>
    /\ UNCHANGED initVars
    /\ UNCHANGED solverVars

\* timeout1 (lines 226-276) schedules timeout2, timeout2 (lines 237-273)
\* schedules timeout3: the unit streaming and the impact
Timeout1 ==
    /\ "timeout1" \in timeouts
    /\ timeouts' = {"timeout2"}
    /\ UNCHANGED <<rcLevel, rcSolved, level, puzzlesSolved, gameState, deck, leftConstant,
                   rightValue, moves, minMoves, moveHistory, undoAvailable,
                   isAnimating, card, closureLeft>>
    /\ UNCHANGED initVars
    /\ UNCHANGED solverVars

\* Timeout2 that does not register timeout3
Timeout2Stalls ==
    /\ "timeout2" \in timeouts
    /\ timeouts' = {}
    /\ UNCHANGED <<rcLevel, rcSolved, level, puzzlesSolved, gameState, deck, leftConstant,
                   rightValue, moves, minMoves, moveHistory, undoAvailable,
                   isAnimating, card, closureLeft>>
    /\ UNCHANGED <<lvl, b, solution, newDeck, optimal, attempts, tried>>
    /\ UNCHANGED <<target, availableCards, result, pc, queue, visited>>

Timeout2 ==
    /\ "timeout2" \in timeouts
    /\ timeouts' = {"timeout3"}
    /\ UNCHANGED <<rcLevel, rcSolved, level, puzzlesSolved, gameState, deck, leftConstant,
                   rightValue, moves, minMoves, moveHistory, undoAvailable,
                   isAnimating, card, closureLeft>>
    /\ UNCHANGED initVars
    /\ UNCHANGED solverVars

\* Timeout3 with the delta added to the left side only
Timeout3LeftOnly ==
    /\ "timeout3" \in timeouts
    /\ LET delta == Delta(card)
           newLeft == closureLeft + delta
       IN /\ leftConstant' = leftConstant + delta
          /\ rightValue' = rightValue
          /\ isAnimating' = FALSE
          /\ timeouts' = IF newLeft = 0 THEN {"victoryTimeout"} ELSE {}
    /\ card' = NoCard
    /\ closureLeft' = 0
    /\ UNCHANGED <<rcLevel, rcSolved, level, puzzlesSolved, gameState, deck, moves, minMoves,
                   moveHistory, undoAvailable>>
    /\ UNCHANGED <<lvl, b, solution, newDeck, optimal, attempts, tried>>
    /\ UNCHANGED <<target, availableCards, result, pc, queue, visited>>

\* timeout3, lines 250-271: the value update.  newLeft is computed from the
\* leftConstant of the render the card was clicked in.
Timeout3 ==
    /\ "timeout3" \in timeouts
    /\ LET delta == Delta(card)
           newLeft == closureLeft + delta
       IN /\ leftConstant' = leftConstant + delta
          /\ rightValue' = rightValue + delta
          /\ isAnimating' = FALSE
          /\ timeouts' = IF newLeft = 0 THEN {"victoryTimeout"} ELSE {}
    /\ card' = NoCard
    /\ closureLeft' = 0
    /\ UNCHANGED <<rcLevel, rcSolved, level, puzzlesSolved, gameState, deck, moves, minMoves,
                   moveHistory, undoAvailable>>
    /\ UNCHANGED initVars
    /\ UNCHANGED solverVars

\* victoryTimeout, lines 265-268; gameState changes, so Cleanup runs
VictoryTimeout ==
    /\ "victoryTimeout" \in timeouts
    /\ gameState' = "victory"
    /\ Cleanup
    /\ UNCHANGED <<rcLevel, rcSolved, level, puzzlesSolved, deck, leftConstant, rightValue,
                   moves, minMoves, moveHistory, undoAvailable, isAnimating>>
    /\ UNCHANGED initVars
    /\ UNCHANGED solverVars

\* UndoDelta with the sign of the card application
UndoDeltaSameSign(last) == IF last.type = "antimatter" THEN -last.value ELSE last.value

\* the sign of line 283: last.type === 'antimatter' ? last.value : -last.value
UndoDelta(last) == IF last.type = "antimatter" THEN last.value ELSE -last.value

\* HandleUndo with the test undoAvailable <= 0 forgotten
HandleUndoUnguarded ==
    /\ gameState = "playing"
    /\ ~(Len(moveHistory) = 0 \/ isAnimating)
    /\ LET last == moveHistory[Len(moveHistory)]
           delta == UndoDelta(last)
       IN /\ leftConstant' = leftConstant + delta
          /\ rightValue' = rightValue + delta
    /\ moves' = moves - 1
    /\ undoAvailable' = undoAvailable - 1
    /\ moveHistory' = SubSeq(moveHistory, 1, Len(moveHistory) - 1)
    /\ UNCHANGED <<rcLevel, rcSolved, level, puzzlesSolved, gameState, deck, minMoves,
                   isAnimating, timeouts, card, closureLeft>>
    /\ UNCHANGED <<lvl, b, solution, newDeck, optimal, attempts, tried>>
    /\ UNCHANGED <<target, availableCards, result, pc, queue, visited>>

\* HandleUndo that also clears the registered timers
HandleUndoClearing ==
    /\ gameState = "playing"
    /\ ~(Len(moveHistory) = 0 \/ isAnimating \/ undoAvailable <= 0)
    /\ LET last == moveHistory[Len(moveHistory)]
           delta == UndoDelta(last)
       IN /\ leftConstant' = leftConstant + delta
          /\ rightValue' = rightValue + delta
    /\ moves' = moves - 1
    /\ undoAvailable' = undoAvailable - 1
    /\ moveHistory' = SubSeq(moveHistory, 1, Len(moveHistory) - 1)
    /\ timeouts' = {}
    /\ UNCHANGED <<rcLevel, rcSolved, level, puzzlesSolved, gameState, deck, minMoves,
                   isAnimating, card, closureLeft>>
    /\ UNCHANGED <<lvl, b, solution, newDeck, optimal, attempts, tried>>
    /\ UNCHANGED <<target, availableCards, result, pc, queue, visited>>

\* HandleUndo that restores the left side only
HandleUndoLeftOnly ==
    /\ gameState = "playing"
    /\ ~(Len(moveHistory) = 0 \/ isAnimating \/ undoAvailable <= 0)
    /\ LET last == moveHistory[Len(moveHistory)]
           delta == UndoDelta(last)
       IN /\ leftConstant' = leftConstant + delta
          /\ rightValue' = rightValue
    /\ moves' = moves - 1
    /\ undoAvailable' = undoAvailable - 1
    /\ moveHistory' = SubSeq(moveHistory, 1, Len(moveHistory) - 1)
    /\ UNCHANGED <<rcLevel, rcSolved, level, puzzlesSolved, gameState, deck, minMoves,
                   isAnimating, timeouts, card, closureLeft>>
    /\ UNCHANGED <<lvl, b, solution, newDeck, optimal, attempts, tried>>
    /\ UNCHANGED <<target, availableCards, result, pc, queue, visited>>

\* handleUndo, lines 279-289
HandleUndo ==
    /\ gameState = "playing"
    /\ ~(Len(moveHistory) = 0 \/ isAnimating \/ undoAvailable <= 0)
    /\ LET last == moveHistory[Len(moveHistory)]
           delta == UndoDelta(last)
       IN /\ leftConstant' = leftConstant + delta
          /\ rightValue' = rightValue + delta
    /\ moves' = moves - 1
    /\ undoAvailable' = undoAvailable - 1
    /\ moveHistory' = SubSeq(moveHistory, 1, Len(moveHistory) - 1)
    /\ UNCHANGED <<rcLevel, rcSolved, level, puzzlesSolved, gameState, deck, minMoves,
                   isAnimating, timeouts, card, closureLeft>>
    /\ UNCHANGED initVars
    /\ UNCHANGED solverVars

Next ==
    \/ StartLevel
    \/ NextCore
    \/ ToMenu
    \/ ResetProgress
    \/ \E i \in 1..3 : HandleCardClick(i)
    \/ Timeout1
    \/ Timeout2
    \/ Timeout3
    \/ VictoryTimeout
    \/ HandleUndo

Spec == Init /\ [][Next]_vars

\* A timer that was registered with setTimeout and is not cleared runs when
\* its delay (300, 1500, 300, 1000 ms) has passed: the event loop does not
\* starve a due timer.  The player's actions are under no obligation.
TimersRun ==
    /\ WF_vars(Timeout1)
    /\ WF_vars(Timeout2)
    /\ WF_vars(Timeout3)
    /\ WF_vars(VictoryTimeout)

FairSpec == Init /\ [][Next]_vars /\ TimersRun

-----------------------------------------------------------------------------
(* The solver step by step, one iteration of its while loop at a time:
   SpecSearch *)

\* lines 163-164: the queue holds the start node, which is marked visited
SearchInit ==
    /\ AppInit(1)
    /\ NoInitLevel
    /\ target \in -SearchMaxTarget..SearchMaxTarget
    /\ availableCards \in AllDecks
    /\ result = 0
    /\ pc = "loop"
    /\ queue = <<[current |-> 0, moves |-> 0]>>
    /\ visited = {0}

\* lines 166-167: the dequeued node is the target
SearchFound ==
    /\ pc = "loop"
    /\ queue # <<>>
    /\ Head(queue).current = target
    /\ result' = Head(queue).moves
    /\ pc' = "returned"
    /\ queue' = Tail(queue)
    /\ UNCHANGED <<target, availableCards, visited>>
    /\ UNCHANGED gameVars
    /\ UNCHANGED initVars

\* lines 166-175: the dequeued node is not the target; its neighbours are
\* tried in the order of the deck
SearchExpand ==
    /\ pc = "loop"
    /\ queue # <<>>
    /\ Head(queue).current # target
    /\ LET head == Head(queue)
           after == ForEachCard(1, availableCards, head.current, head.moves,
                                target, Tail(queue), visited)
       IN /\ queue' = after.queue
          /\ visited' = after.visited
    /\ UNCHANGED <<target, availableCards, result, pc>>
    /\ UNCHANGED gameVars
    /\ UNCHANGED initVars

\* lines 165 and 177: the queue is empty
SearchExhausted ==
    /\ pc = "loop"
    /\ queue = <<>>
    /\ result' = Fallback
    /\ pc' = "returned"
    /\ UNCHANGED <<target, availableCards, queue, visited>>
    /\ UNCHANGED gameVars
    /\ UNCHANGED initVars

SearchNext ==
    \/ SearchFound
    \/ SearchExpand
    \/ SearchExhausted

\* the loop is synchronous code: as long as it has an iteration to run, it
\* runs it
SpecSearch == SearchInit /\ [][SearchNext]_vars /\ WF_vars(SearchNext)

-----------------------------------------------------------------------------
(* generateDeck on its own: SpecDeck *)

DeckInit ==
    /\ AppInit(1)
    /\ lvl \in 1..DeckMaxLevel
    /\ b = 0
    /\ solution = 0
    /\ newDeck = <<>>
    /\ optimal = 0
    /\ attempts = 0
    /\ tried = <<>>
    /\ target = 0
    /\ availableCards = <<>>
    /\ result = 0
    /\ pc = "call"
    /\ queue = <<>>
    /\ visited = {}

GenerateDeck ==
    /\ pc = "call"
    /\ newDeck' \in generateDeck(lvl, DeckRandRes)
    /\ pc' = "returned"
    /\ UNCHANGED <<lvl, b, solution, optimal, attempts, tried>>
    /\ UNCHANGED <<target, availableCards, result, queue, visited>>
    /\ UNCHANGED gameVars

DeckNext == GenerateDeck

SpecDeck == DeckInit /\ [][DeckNext]_vars

-----------------------------------------------------------------------------
(* initLevel on its own, from the menu of a fresh session: SpecInitLevel *)

InitLevelInit ==
    /\ \E l \in 1..GenMaxLevel : AppInit(l)
    /\ NoInitLevel
    /\ NoSolver

FineOutcomes ==
    [k \in Random(GenRandRes) |->
        Loop(level, RandomOffset(k, MaxVal(level), GenRandRes), GenRandRes)]

FirstLevel ==
    /\ gameState = "menu"
    /\ initLevel(level, GenRandRes, FineOutcomes)
    /\ UNCHANGED <<rcLevel, rcSolved, level, puzzlesSolved>>
    /\ UNCHANGED solverVars

InitLevelNext == FirstLevel

SpecInitLevel == InitLevelInit /\ [][InitLevelNext]_vars

-----------------------------------------------------------------------------
(* initLevel pass by pass, from the menu of a fresh session: SpecLoop *)

LoopInit ==
    /\ \E l \in 1..GenMaxLevel : AppInit(l)
    /\ NoInitLevel
    /\ target = 0
    /\ availableCards = <<>>
    /\ result = 0
    /\ pc = "call"
    /\ queue = <<>>
    /\ visited = {}

\* the passes the do-while can make at a level and an offset, computed once
TriesOfLoop ==
    [l \in 1..GenMaxLevel |->
        [k \in Random(GenRandRes) |->
            Tries(l, RandomOffset(k, MaxVal(l), GenRandRes), GenRandRes)]]

\* every deck generateDeck can return at a level, computed once
DecksOfLevel == [l \in 1..GenMaxLevel |-> generateDeck(l, GenRandRes)]

\* the offset of Random(GenRandRes) that b was drawn from
DrawnFrom(l, bb) ==
    CHOOSE k \in Random(GenRandRes) :
        RandomOffset(k, MaxVal(l), GenRandRes) = bb

\* lines 181-187: b and solution are drawn, attempts is 0
LoopEnter ==
    /\ pc = "call"
    /\ gameState = "menu"
    /\ \E kb \in Random(GenRandRes) : \E ks \in Random(GenRandRes) :
          /\ lvl' = level
          /\ b' = RandomOffset(kb, MaxVal(level), GenRandRes)
          /\ solution' = RandomOffset(ks, MaxVal(level), GenRandRes)
    /\ newDeck' = <<>>
    /\ optimal' = 0
    /\ attempts' = 0
    /\ tried' = <<>>
    /\ pc' = "do"
    /\ UNCHANGED <<target, availableCards, result, queue, visited>>
    /\ UNCHANGED gameVars

\* lines 189-192, one pass of the do-while: a deck is generated, the
\* solver is run on it, attempts is incremented and the condition of the
\* while is tested
LoopPass ==
    /\ pc = "do"
    /\ \E t \in TriesOfLoop[lvl][DrawnFrom(lvl, b)] :
          /\ newDeck' = t.newDeck
          /\ optimal' = t.optimal
          /\ tried' = Append(tried, t.optimal)
          /\ pc' = IF LoopAgain(t.optimal, attempts + 1) THEN "do" ELSE "exit"
    /\ attempts' = attempts + 1
    /\ UNCHANGED <<lvl, b, solution>>
    /\ UNCHANGED <<target, availableCards, result, queue, visited>>
    /\ UNCHANGED gameVars

\* lines 194-206: what the loop left is installed; gameState becomes
\* 'playing', so Cleanup runs
LoopExit ==
    /\ pc = "exit"
    /\ Install(b, solution + b, [newDeck |-> newDeck, optimal |-> optimal])
    /\ Cleanup
    /\ pc' = "returned"
    /\ UNCHANGED <<rcLevel, rcSolved, level, puzzlesSolved>>
    /\ UNCHANGED initVars
    /\ UNCHANGED <<target, availableCards, result, queue, visited>>

LoopNext == LoopEnter \/ LoopPass \/ LoopExit

SpecLoop == LoopInit /\ [][LoopNext]_vars

-----------------------------------------------------------------------------
(* What the claims speak of *)

\* the signed deltas of the cards of a deck
Deltas(cards) == {Delta(cards[i]) : i \in 1..Len(cards)}

\* the sums of exactly k signed deltas, repetition allowed
RECURSIVE SumsOf(_, _)
SumsOf(k, ds) ==
    IF k = 0 THEN {0} ELSE {s + d : s \in SumsOf(k - 1, ds), d \in ds}

\* the numbers k <= MaxDepth of deltas the target is a sum of
Counts(t, cards) == {k \in 0..MaxDepth : t \in SumsOf(k, Deltas(cards))}

Least(S) == CHOOSE k \in S : \A j \in S : k <= j

\* the sums of exactly k signed deltas whose partial sums all stay within
\* the range bound of the search
RECURSIVE BoundedSumsOf(_, _, _)
BoundedSumsOf(k, ds, range) ==
    IF k = 0 THEN {0}
    ELSE {x \in {s + d : s \in BoundedSumsOf(k - 1, ds, range), d \in ds} :
              Abs(x) <= range}

\* the target is reachable within the search bounds
WithinBounds(t, cards) ==
    \E k \in 0..MaxDepth :
        t \in BoundedSumsOf(k, Deltas(cards), Abs(t) + RangeSlack)

\* the sums of any number of signed deltas, among the integers of
\* -range..range: the closure of S under adding a delta.  A sum of deltas
\* equal to t can be taken in an order that keeps every partial sum within
\* MaxMagnitude of the interval from 0 to t, so a range of
\* Abs(t) + MaxMagnitude loses no way of reaching t.
RECURSIVE Closure(_, _, _)
Closure(S, ds, range) ==
    LET more == {x \in {s + d : s \in S, d \in ds} : Abs(x) <= range} \ S
    IN IF more = {} THEN S ELSE Closure(S \cup more, ds, range)

\* some finite sequence of cards of the deck drives leftConstant from bb to 0
Solvable(bb, cards) ==
    -bb \in Closure({0}, Deltas(cards), Abs(bb) + MaxMagnitude)

Matter(v) == create(v, "matter")
Antimatter(v) == create(v, "antimatter")

-----------------------------------------------------------------------------
(* C1..C10 *)

\* C1: whenever the target is a sum of k <= 8 signed card deltas,
\* calculateMinMoves returns the least such k (the range bound of the
\* search never costs a move).
C1_MinMovesIsLeast ==
    pc = "returned" =>
        LET S == Counts(target, availableCards)
        IN S # {} => result = Least(S)

\* C1, its case: target 5 with deck [Antimatter(1), Matter(2), Matter(3)]
\* yields 2
C1_Witness ==
    /\ pc = "returned"
    /\ target = 5
    /\ availableCards = <<Antimatter(1), Matter(2), Matter(3)>>
    /\ result = 2

\* C2: when the target is not reachable within the search bounds,
\* calculateMinMoves returns something that is no move count (in
\* particular not 1).
C2_UnreachableIsReported ==
    (pc = "returned" /\ ~WithinBounds(target, availableCards))
        => result \notin 0..MaxDepth

\* C3: every puzzle installed by initLevel is solvable.
C3_InstalledPuzzleIsSolvable ==
    gameState = "playing" => Solvable(b, deck)

\* C4: in the victory state leftConstant is 0.
C4_VictoryMeansBalanced ==
    gameState = "victory" => leftConstant = 0

\* C5: since the last initLevel, rightValue - leftConstant is the hidden
\* solution E that initLevel drew.
C5_EquationKeepsItsSolution ==
    gameState \in {"playing", "victory"} => rightValue - leftConstant = solution

\* C5, its case: a card application has completed and an undo has taken
\* effect, and leftConstant is no longer the initial offset
C5_Witness ==
    /\ gameState = "playing"
    /\ undoAvailable = 0
    /\ ~isAnimating
    /\ moves >= 1
    /\ leftConstant # b
    /\ solution # 0

\* C6: initLevel draws the offset b once and makes between 1 and 20
\* attempts, each a deck of generateDeck and the solver's result for the
\* target -b on it.  Every attempt before the last gave a result > 6, so
\* the last attempt is the first whose result is <= 6, or the 20th; the
\* deck and minMoves installed are those of the last attempt.  Hence
\* minMoves > 6 is installed only after 20 attempts that all gave > 6.
C6_InstallsFirstGoodAttempt ==
    /\ [] /\ attempts \in 0..MaxAttempts
          /\ Len(tried) = attempts
          /\ \A i \in 1..(attempts - 1) : tried[i] > GoodEnough
          /\ attempts >= 1 =>
                /\ optimal = tried[attempts]
                /\ newDeck \in DecksOfLevel[lvl]
                /\ optimal = calculateMinMoves(-b, newDeck)
          /\ gameState = "playing" =>
                /\ attempts >= 1
                /\ leftConstant = b
                /\ deck = newDeck
                /\ minMoves = tried[attempts]
                /\ (tried[attempts] <= GoodEnough \/ attempts = MaxAttempts)
                /\ minMoves > GoodEnough =>
                      \A i \in 1..MaxAttempts : tried[i] > GoodEnough
    /\ [][pc = "do" => (b' = b /\ lvl' = lvl)]_vars

\* C6, its case: all 20 attempts gave a result > 6, and the 20th is installed
C6_Witness ==
    /\ gameState = "playing"
    /\ attempts = MaxAttempts
    /\ Len(tried) = MaxAttempts
    /\ minMoves > GoodEnough

\* C7: generateDeck(lvl) returns exactly 3 cards, each of a magnitude in
\* 1..min(floor(lvl/2) + 3, 5).
C7_DeckMagnitudes ==
    pc = "returned" =>
        /\ Len(newDeck) = 3
        /\ \A i \in 1..Len(newDeck) :
              /\ newDeck[i].value >= 1
              /\ newDeck[i].value <= (lvl \div 2) + 3
              /\ newDeck[i].value <= 5

\* C7, its case: a level where floor(lvl/2) + 3 exceeds 5, and a card of
\* magnitude 5
C7_Witness ==
    /\ pc = "returned"
    /\ (lvl \div 2) + 3 > 5
    /\ \E i \in 1..3 : newDeck[i].value = 5

\* C8: every deck generateDeck returns holds a matter card and an
\* antimatter card.
C8_DeckIsMixed ==
    pc = "returned" =>
        /\ \E i \in 1..Len(newDeck) : newDeck[i].type = "matter"
        /\ \E i \in 1..Len(newDeck) : newDeck[i].type = "antimatter"

\* C8, its case: the shuffle has moved the forced cards (the first card is
\* matter, the second antimatter) and the third card drew matter
C8_Witness ==
    /\ pc = "returned"
    /\ newDeck[1].type = "matter"
    /\ newDeck[2].type = "antimatter"
    /\ newDeck[3].type = "matter"

\* C9: at victory the move count is at least minMoves.
C9_MinMovesIsLowerBound ==
    gameState = "victory" => moves >= minMoves

\* a step of the level in which an undo takes effect
UndoTakesEffect ==
    /\ gameState = "playing"
    /\ gameState' = "playing"
    /\ moves' = moves - 1

\* a step that starts a level
LevelStarts ==
    /\ gameState # "playing"
    /\ gameState' = "playing"

\* C10: undoAvailable is always 0 or 1 and is 1 when a level starts; an undo
\* takes effect only when it is 1 and makes it 0; it goes back to 1 only
\* when the next level starts.  So undo takes effect at most once per level.
C10_UndoAtMostOnce ==
    /\ [](undoAvailable \in {0, 1})
    /\ [][ /\ LevelStarts => undoAvailable' = 1
           /\ UndoTakesEffect => (undoAvailable = 1 /\ undoAvailable' = 0)
           /\ undoAvailable' > undoAvailable => LevelStarts ]_vars

\* C10, its case: the undo of the level has been used, and a card has been
\* applied since, so that there is a move to undo
C10_Witness ==
    /\ gameState = "playing"
    /\ undoAvailable = 0
    /\ ~isAnimating
    /\ Len(moveHistory) >= 1

-----------------------------------------------------------------------------
(* The solver's result *)

\* C11: for every target and every deck, calculateMinMoves returns a
\* non-negative integer, and it returns 0 when the target is 0.
C11_ResultIsNonNegative ==
    pc = "returned" =>
        /\ result \in Nat
        /\ target = 0 => result = 0

\* C11, its case: the solver has returned for the target 0
C11_Witness ==
    /\ pc = "returned"
    /\ target = 0
    /\ result = 0

-----------------------------------------------------------------------------
(* Delayed callbacks *)

\* a step in which the pending callback t runs
Fires(t) ==
    CASE t = "timeout1" -> timeouts' = {"timeout2"}
      [] t = "timeout2" -> timeouts' = {"timeout3"}
      [] t = "timeout3" -> isAnimating /\ ~isAnimating' /\ gameState' = gameState
      [] t = "victoryTimeout" -> gameState = "playing" /\ gameState' = "victory"

\* a step in which a pending callback is dropped without having run
Discarded ==
    \E t \in timeouts : t \notin timeouts' /\ ~Fires(t)

\* a step in which a card click is accepted
ClickAccepted ==
    /\ gameState = "playing"
    /\ gameState' = "playing"
    /\ ~isAnimating
    /\ isAnimating'

CardBroughtLeftToZero ==
    /\ gameState = "playing"
    /\ ~isAnimating
    /\ leftConstant = 0
    /\ moves >= 1

\* C13: once a card application has brought the left side to 0, the game
\* eventually shows the victory screen unless the player aborts to the
\* menu, whatever cards or undo the player clicks in the meantime.
C13_ZeroLeadsToVictory ==
    CardBroughtLeftToZero ~> (gameState = "victory" \/ gameState = "menu")

\* C14: after an abort no callback of the abandoned level runs.  In the
\* menu no callback is pending and leftConstant and rightValue are not
\* modified; a level starts with no callback pending; the victory screen is
\* entered from 'playing' only, never from the menu.
C14_NothingRunsAfterAbort ==
    /\ [](gameState = "menu" => timeouts = {})
    /\ [][ /\ (gameState = "menu" /\ gameState' = "menu") =>
                (leftConstant' = leftConstant /\ rightValue' = rightValue)
           /\ LevelStarts => timeouts' = {}
           /\ (gameState # "victory" /\ gameState' = "victory") =>
                gameState = "playing" ]_vars

\* C14, its case: the level was aborted while a card was being applied
C14_Witness ==
    /\ gameState = "menu"
    /\ isAnimating
    /\ Len(moveHistory) >= 1
    /\ leftConstant = b

-----------------------------------------------------------------------------
(* The level of the puzzle *)

\* C15: the puzzle that is played was generated from the level held in
\* state: the magnitude cap initLevel used is min(floor(level/2)+3, 5) for
\* the current level, also when the level was started with NEXT CORE.
C15_PuzzleIsOfCurrentLevel ==
    gameState = "playing" => MaxVal(lvl) = MaxVal(level)

-----------------------------------------------------------------------------
(* The application of a card *)

\* the callbacks of one card application
ChainTimers == {"timeout1", "timeout2", "timeout3"}

\* a card is being applied in the level that is played
InFlight == gameState = "playing" /\ isAnimating

\* C16: while isAnimating is true a card click and an undo change nothing.
\* As long as the level goes on with a card in flight, moves, moveHistory
\* and undoAvailable keep their values, the pending callback is replaced
\* only by its successor in the chain, and leftConstant and rightValue
\* change only in the step that ends the animation.  Exactly one callback
\* of one card is pending: at most one application is in flight.
C16_NothingChangesWhileAnimating ==
    /\ [](InFlight => (timeouts \subseteq ChainTimers /\ Cardinality(timeouts) = 1))
    /\ [][ (InFlight /\ gameState' = "playing") =>
              /\ moves' = moves
              /\ moveHistory' = moveHistory
              /\ undoAvailable' = undoAvailable
              /\ timeouts' # timeouts => \E t \in timeouts : Fires(t)
              /\ isAnimating' =>
                    (leftConstant' = leftConstant /\ rightValue' = rightValue) ]_vars

\* C16, its case: a card is in flight while a card click and an undo would
\* both be accepted were isAnimating false
C16_Witness ==
    /\ InFlight
    /\ moves < MaxMoves
    /\ undoAvailable = 1
    /\ Len(moveHistory) >= 1
    /\ "timeout2" \in timeouts

\* the sum of the signed deltas of a sequence of cards
RECURSIVE SumOfDeltas(_)
SumOfDeltas(cards) ==
    IF cards = <<>> THEN 0
    ELSE Delta(Head(cards)) + SumOfDeltas(Tail(cards))

\* C17: in a level that is played, when no card is in flight, leftConstant
\* is the initial offset b plus the signed deltas of the cards of
\* moveHistory, and moves is the length of moveHistory.
C17_HistoryAccountsForLeft ==
    (gameState = "playing" /\ ~isAnimating) =>
        /\ leftConstant = b + SumOfDeltas(moveHistory)
        /\ moves = Len(moveHistory)

\* C17, its case: two cards applied, one of them after the undo of another
C17_Witness ==
    /\ gameState = "playing"
    /\ ~isAnimating
    /\ undoAvailable = 0
    /\ Len(moveHistory) = 2
    /\ leftConstant # b

\* C18: an undo that takes effect is the inverse of the last completed
\* card application.  The application of a card appends it to moveHistory,
\* adds 1 to moves and adds its delta to both sides; applied to the state
\* the undo leaves, the last card gives back the state the undo started
\* from, so the undo leaves the values of before that card was clicked, and
\* what it leaves agrees with the shortened history (leftConstant is b plus
\* its deltas, rightValue exceeds it by the solution).  Only undoAvailable
\* differs: it is one less.
C18_UndoIsInverse ==
    [][ UndoTakesEffect =>
          LET last == moveHistory[Len(moveHistory)]
          IN /\ ~isAnimating
             /\ moveHistory = Append(moveHistory', last)
             /\ moves = moves' + 1
             /\ leftConstant = leftConstant' + Delta(last)
             /\ rightValue = rightValue' + Delta(last)
             /\ leftConstant' = b + SumOfDeltas(moveHistory')
             /\ rightValue' = solution + leftConstant'
             /\ undoAvailable' = undoAvailable - 1
             /\ UNCHANGED <<rcLevel, rcSolved, level, puzzlesSolved, gameState, deck, minMoves,
                            isAnimating, timeouts>> ]_vars

\* C18, its case: the first card of the level was applied and undone
C18_Witness ==
    /\ gameState = "playing"
    /\ ~isAnimating
    /\ undoAvailable = 0
    /\ moves = 0
    /\ moveHistory = <<>>
    /\ leftConstant = b
    /\ rightValue = solution + b

\* leftConstant and rightValue are left as they are
SidesUnchanged ==
    /\ leftConstant' = leftConstant
    /\ rightValue' = rightValue

\* C19: after an accepted card click, as long as the player does not leave
\* the level, the callbacks run in order (card removal, then streaming,
\* then impact, then the value update), the value update adds the delta of
\* the clicked card once to both sides and ends the animation, and the
\* chain completes: isAnimating returns to false.
C19_ChainRunsInOrder ==
    /\ [][ (gameState = "playing" /\ gameState' = "playing") =>
              /\ ClickAccepted =>
                    /\ timeouts' = {"timeout1"}
                    /\ card' = moveHistory'[Len(moveHistory')]
                    /\ SidesUnchanged
              /\ (timeouts = {"timeout1"} /\ timeouts' # timeouts) =>
                    /\ timeouts' = {"timeout2"}
                    /\ isAnimating'
                    /\ SidesUnchanged
              /\ (timeouts = {"timeout2"} /\ timeouts' # timeouts) =>
                    /\ timeouts' = {"timeout3"}
                    /\ isAnimating'
                    /\ SidesUnchanged
              /\ (timeouts = {"timeout3"} /\ timeouts' # timeouts) =>
                    /\ timeouts' \cap ChainTimers = {}
                    /\ ~isAnimating'
                    /\ card = moveHistory[Len(moveHistory)]
                    /\ leftConstant' = leftConstant + Delta(card)
                    /\ rightValue' = rightValue + Delta(card) ]_vars
    /\ InFlight ~> (~isAnimating \/ gameState # "playing")

\* C19, its case: the chain of the first card of the level has completed
\* without balancing the equation
C19_Witness ==
    /\ gameState = "playing"
    /\ ~isAnimating
    /\ timeouts = {}
    /\ undoAvailable = 1
    /\ Len(moveHistory) = 1
    /\ leftConstant = b + Delta(moveHistory[1])
    /\ rightValue = solution + b + Delta(moveHistory[1])

-----------------------------------------------------------------------------
(* The puzzle a level starts with *)

\* C20: initLevel never starts a level that is already solved: right after
\* it, leftConstant is not 0, and so minMoves is at least 1.
C20_StartsUnsolved ==
    (gameState = "playing" /\ moves = 0 /\ moveHistory = <<>> /\ undoAvailable = 1) =>
        /\ leftConstant # 0
        /\ minMoves >= 1

-----------------------------------------------------------------------------
(* Progress *)

\* a step that changes level or puzzlesSolved
ProgressChanges ==
    level' # level \/ puzzlesSolved' # puzzlesSolved

\* the step of NEXT CORE: from the victory screen into the next level
NextCoreStep ==
    /\ gameState = "victory"
    /\ gameState' = "playing"

\* C21: level and puzzlesSolved are changed only by NEXT CORE, which adds
\* exactly 1 to each, and by a confirmed reset of progress in the menu,
\* which sets them to 1 and 0; every other step leaves both as they are.
\* From level 1 with 0 solved (and from any stored pair of that form),
\* level = puzzlesSolved + 1 in every reachable state.
C21_ProgressChangesOnlyByNextCoreAndReset ==
    /\ [](level = puzzlesSolved + 1)
    /\ [][ /\ NextCoreStep =>
                (level' = level + 1 /\ puzzlesSolved' = puzzlesSolved + 1)
           /\ (ProgressChanges /\ ~NextCoreStep) =>
                /\ gameState = "menu"
                /\ gameState' = "menu"
                /\ level' = 1
                /\ puzzlesSolved' = 0 ]_vars

\* C21, its case: a level 2 was played and left, and progress was then
\* reset in the menu
C21_Witness ==
    /\ gameState = "menu"
    /\ level = 1
    /\ puzzlesSolved = 0
    /\ lvl = 2
    /\ Len(moveHistory) >= 1

\* both keys hold the strings of the counters
StoredIsState ==
    /\ rcLevel = {toString(level)}
    /\ rcSolved = {toString(puzzlesSolved)}

\* what the next session would read from localStorage (lines 102-103)
StoredLevel == parseInt(OrDefault(rcLevel, <<Char.one>>))
StoredSolved == parseInt(OrDefault(rcSolved, <<Char.zero>>))

\* C22: the stored counters follow the state.  After every step that
\* changes level or puzzlesSolved (NEXT CORE, a confirmed reset of
\* progress) the string stored under 'rc_level' is that of level and the
\* string stored under 'rc_solved' is that of puzzlesSolved; they are so in
\* every state, and the next session reads level and puzzlesSolved back
\* from them.
C22_StoredFollowsState ==
    /\ [](StoredIsState /\ StoredLevel = level /\ StoredSolved = puzzlesSolved)
    /\ [][ProgressChanges => StoredIsState']_vars

\* C22, its case: NEXT CORE has been processed, and its level is played
C22_Witness ==
    /\ gameState = "playing"
    /\ level = 2
    /\ lvl = 1
    /\ rcLevel = {<<\h0032>>}
    /\ rcSolved = {<<\h0031>>}

-----------------------------------------------------------------------------
(* Termination of the solver *)

\* the sums of the nodes of a queue
Currents(q) == {q[i].current : i \in 1..Len(q)}

\* the nodes an iteration has appended to the queue
Appended == SubSeq(queue', Len(queue), Len(queue'))

\* C23: calculateMinMoves terminates for every target and every deck.
\* Every node of the queue is a visited sum within |target| + 15 at depth
\* at most 8, and no sum is in the queue twice; an iteration removes the
\* head and appends only sums that were not visited, each once, marking
\* them visited, so that every sum is enqueued at most once; and the loop
\* ends, the target dequeued or the queue empty, with the result the
\* search gives as a whole.
C23_SearchTerminates ==
    /\ [](\A i \in 1..Len(queue) :
            /\ Abs(queue[i].current) <= Abs(target) + RangeSlack
            /\ queue[i].moves <= MaxDepth
            /\ queue[i].current \in visited
            /\ \A j \in 1..Len(queue) :
                  queue[i].current = queue[j].current => i = j)
    /\ [][ (pc = "loop" /\ pc' = "loop") =>
              /\ SubSeq(queue', 1, Len(queue) - 1) = Tail(queue)
              /\ Currents(Appended) \cap visited = {}
              /\ Cardinality(Currents(Appended)) = Len(Appended)
              /\ visited' = visited \cup Currents(Appended) ]_vars
    /\ [](pc = "returned" =>
            /\ result = calculateMinMoves(target, availableCards)
            /\ (target \in visited \/ (queue = <<>> /\ result = Fallback)))
    /\ <>(pc = "returned")

\* C23, its case: the search has ended with its queue empty after it had
\* visited every sum it could enqueue
C23_Witness ==
    /\ pc = "returned"
    /\ queue = <<>>
    /\ result = Fallback
    /\ target # 0
    /\ Cardinality(visited) >= MaxDepth

=============================================================================
